---- MODULE Spec2Model ----
(***************************************************************************)
(* Model of dry_ice_blaster_Calc.py: the pure function perform_cba (lines  *)
(* 6-143) and the Streamlit script around it (widgets 166-238, the call    *)
(* 243-260, the Investment Metrics rendering 299-328).                     *)
(*                                                                         *)
(* Numbers.  Python computes with floats; the model computes with exact    *)
(* rationals [n, d] in lowest terms (d > 0), so every equality below is    *)
(* an exact equality of the real-number formulas.  Division by zero gives  *)
(* the value Fault (d = 0), which stands for Python's ZeroDivisionError.   *)
(* The only conversion the function performs, the "%.2f" formatting of the *)
(* payback period, is modelled by Format2f: rounding to hundredths.        *)
(***************************************************************************)
EXTENDS Integers, Sequences, FiniteSets, TLC

VARIABLES
    args,   \* the sixteen arguments of perform_cba (lines 7-22)
    pc,     \* where the script is: "call" (243), "computed", "rendered" (328)
    ret,    \* what perform_cba returned (line 143)
    shown   \* the Investment Metrics on the page (lines 299-328)

vars == <<args, pc, ret, shown>>

----------------------------------------------------------------------------
(* Exact rational arithmetic standing for Python's float +, -, *, /, <, <= *)

Abs(x) == IF x < 0 THEN -x ELSE x

RECURSIVE GCD(_, _)
GCD(a, b) == IF b = 0 THEN a ELSE GCD(b, a % b)

Fault == [n |-> 0, d |-> 0]

IsFault(x) == x.d = 0

\* n/d in lowest terms with a positive denominator (d # 0)
R(n, d) ==
    LET g == GCD(Abs(n), Abs(d))
        s == IF d < 0 THEN -1 ELSE 1
    IN [n |-> s * (n \div g), d |-> s * (d \div g)]

Zero == [n |-> 0, d |-> 1]

Add(x, y) ==
    IF IsFault(x) \/ IsFault(y) THEN Fault
    ELSE LET g == GCD(x.d, y.d)
         IN R(x.n * (y.d \div g) + y.n * (x.d \div g), (x.d \div g) * y.d)

Neg(x) == [n |-> -x.n, d |-> x.d]

Sub(x, y) == Add(x, Neg(y))

Mul(x, y) ==
    IF IsFault(x) \/ IsFault(y) THEN Fault
    ELSE LET g1 == GCD(Abs(x.n), y.d)
             g2 == GCD(Abs(y.n), x.d)
         IN R((x.n \div g1) * (y.n \div g2), (x.d \div g2) * (y.d \div g1))

\* x / y; dividing by zero is Python's ZeroDivisionError
Div(x, y) ==
    IF IsFault(x) \/ IsFault(y) \/ y.n = 0 THEN Fault
    ELSE Mul(x, IF y.n < 0 THEN [n |-> -y.d, d |-> -y.n]
                           ELSE [n |-> y.d, d |-> y.n])

\* the sign of the difference, over the least common denominator
Lt(x, y) == Sub(x, y).n < 0

Le(x, y) == Sub(x, y).n <= 0

Gt(x, y) == Lt(y, x)

Ge(x, y) == Le(y, x)

\* f"{x:.2f}": x rounded to hundredths (ties to even), as a count of
\* hundredths; the digits are produced one at a time, by long division
Format2f(x) ==
    LET whole == x.n \div x.d
        r0 == x.n % x.d
        t1 == (10 * r0) \div x.d
        r1 == (10 * r0) % x.d
        t2 == (10 * r1) \div x.d
        r2 == (10 * r1) % x.d
        q == 100 * whole + 10 * t1 + t2
    IN IF 2 * r2 < x.d THEN q
       ELSE IF 2 * r2 > x.d THEN q + 1
       ELSE IF q % 2 = 0 THEN q ELSE q + 1

----------------------------------------------------------------------------
(* Bounds of the model and program constants *)

MaxFrequency == 2

MaxLifespan == 2

DaysPerYear == 365

----------------------------------------------------------------------------
(* perform_cba (lines 6-143): one operator per local variable, p the       *)
(* record of the sixteen arguments                                         *)

annual_cleaning_sessions(p) == Mul(p.daily_cleaning_frequency, R(DaysPerYear, 1))

manual_man_hours_per_session(p) ==
    Mul(p.manual_staff_count, p.manual_cleaning_hours_per_session)

manual_annual_labor_cost(p) ==
    Mul(Mul(manual_man_hours_per_session(p), p.staff_hourly_cost),
        annual_cleaning_sessions(p))

manual_annual_chemical_cost(p) ==
    Mul(p.manual_cleaning_chemicals_per_session, annual_cleaning_sessions(p))

manual_annual_water_cost(p) ==
    Mul(p.manual_cleaning_water_per_session, annual_cleaning_sessions(p))

manual_annual_waste_disposal_cost(p) ==
    Mul(p.manual_cleaning_waste_disposal_per_session, annual_cleaning_sessions(p))

total_manual_annual_operational_cost(p) ==
    Add(Add(Add(manual_annual_labor_cost(p), manual_annual_chemical_cost(p)),
            manual_annual_water_cost(p)),
        manual_annual_waste_disposal_cost(p))

dry_ice_cleaning_hours_per_session(p) ==
    Mul(p.manual_cleaning_hours_per_session,
        Sub(R(1, 1), Div(p.dry_ice_cleaning_time_reduction_percent, R(100, 1))))

\* faulty variant: the manual crew, not one operator, runs the blaster
dry_ice_man_hours_per_session_crew(p) ==
    Mul(p.manual_staff_count, dry_ice_cleaning_hours_per_session(p))

dry_ice_man_hours_per_session(p) ==
    Mul(R(1, 1), dry_ice_cleaning_hours_per_session(p))

dry_ice_annual_labor_cost(p) ==
    Mul(Mul(dry_ice_man_hours_per_session(p), p.staff_hourly_cost),
        annual_cleaning_sessions(p))

liquid_co2_annual_cost(p) ==
    Mul(Mul(Mul(p.liquid_co2_consumption_litre_per_hour,
                dry_ice_cleaning_hours_per_session(p)),
            p.liquid_co2_cost_per_litre),
        annual_cleaning_sessions(p))

blaster_annual_power_cost(p) ==
    Mul(Mul(Mul(p.blaster_power_consumption_kw,
                dry_ice_cleaning_hours_per_session(p)),
            p.electricity_cost_per_kwh),
        annual_cleaning_sessions(p))

total_dry_ice_annual_operational_cost(p) ==
    Add(Add(Add(dry_ice_annual_labor_cost(p), liquid_co2_annual_cost(p)),
            p.blaster_maintenance_annual),
        blaster_annual_power_cost(p))

\* faulty variant: the operands of the subtraction swapped
downtime_saved_per_session_hours_swapped(p) ==
    Sub(dry_ice_cleaning_hours_per_session(p), p.manual_cleaning_hours_per_session)

downtime_saved_per_session_hours(p) ==
    Sub(p.manual_cleaning_hours_per_session, dry_ice_cleaning_hours_per_session(p))

annual_downtime_saved_hours(p) ==
    Mul(downtime_saved_per_session_hours(p), annual_cleaning_sessions(p))

annual_revenue_gain_from_uptime(p) ==
    Mul(annual_downtime_saved_hours(p), p.revenue_per_hour_production)

annual_operational_cost_savings(p) ==
    Sub(total_manual_annual_operational_cost(p),
        total_dry_ice_annual_operational_cost(p))

net_financial_benefit_year_1(p) ==
    Sub(Add(annual_operational_cost_savings(p), annual_revenue_gain_from_uptime(p)),
        p.dry_ice_blaster_cost)

net_financial_benefit_subsequent_years(p) ==
    Add(annual_operational_cost_savings(p), annual_revenue_gain_from_uptime(p))

\* faulty variant: the year-1 benefit (capital cost included) counted every year
total_benefit_over_lifespan_capital_each_year(p) ==
    IF Le(p.machine_lifespan_years, Zero) THEN Zero
    ELSE Mul(net_financial_benefit_year_1(p), p.machine_lifespan_years)

\* lines 84-87
total_benefit_over_lifespan(p) ==
    IF Le(p.machine_lifespan_years, Zero) THEN Zero
    ELSE Add(net_financial_benefit_year_1(p),
             Mul(net_financial_benefit_subsequent_years(p),
                 Sub(p.machine_lifespan_years, R(1, 1))))

\* faulty variant: the single-year ROI of the earlier versions of the function
roi_over_lifespan_single_year(p) ==
    IF Gt(p.dry_ice_blaster_cost, Zero)
    THEN Mul(Div(net_financial_benefit_subsequent_years(p), p.dry_ice_blaster_cost),
             R(100, 1))
    ELSE Zero

\* line 89
roi_over_lifespan(p) ==
    IF Gt(p.dry_ice_blaster_cost, Zero)
    THEN Mul(Div(total_benefit_over_lifespan(p), p.dry_ice_blaster_cost), R(100, 1))
    ELSE Zero

\* line 94
initial_investment_to_recover(p) ==
    Sub(p.dry_ice_blaster_cost,
        Add(annual_operational_cost_savings(p), annual_revenue_gain_from_uptime(p)))

\* line 99
payback_period_years_float(p) ==
    Div(initial_investment_to_recover(p), net_financial_benefit_subsequent_years(p))

(* The payback value is a Python string.  A sentinel is modelled by its    *)
(* text; f"{x:.2f} years" by the text "years" and the number printed, in   *)
(* hundredths (years100, meaningful only when text = "years").             *)
Sentinel(t) == [text |-> t, years100 |-> 0]

Years(x) ==
    IF IsFault(x) THEN Sentinel("ZeroDivisionError")
    ELSE [text |-> "years", years100 |-> Format2f(x)]

\* faulty variant: the test of line 96 dropped, the division always taken
payback_period_years_no_year1_test(p) ==
    IF Gt(net_financial_benefit_subsequent_years(p), Zero)
    THEN Years(payback_period_years_float(p))
    ELSE IF Le(net_financial_benefit_subsequent_years(p), Zero)
            /\ Gt(p.dry_ice_blaster_cost, Zero)
         THEN Sentinel("Never (Negative Annual Benefit)")
    ELSE IF p.dry_ice_blaster_cost = Zero
         THEN Sentinel("N/A (No initial cost)")
    ELSE Sentinel("N/A")

\* faulty variant: the amount to recover tested first, before the sign of the benefit
payback_period_years_amount_first(p) ==
    IF Le(initial_investment_to_recover(p), Zero)
    THEN Sentinel("< 1 year (Paid back in Year 1)")
    ELSE IF Gt(net_financial_benefit_subsequent_years(p), Zero)
         THEN Years(payback_period_years_float(p))
    ELSE IF Gt(p.dry_ice_blaster_cost, Zero)
         THEN Sentinel("Never (Negative Annual Benefit)")
    ELSE IF p.dry_ice_blaster_cost = Zero
         THEN Sentinel("N/A (No initial cost)")
    ELSE Sentinel("N/A")

\* lines 92-104
payback_period_years(p) ==
    IF Gt(net_financial_benefit_subsequent_years(p), Zero)
    THEN IF Le(initial_investment_to_recover(p), Zero)
         THEN Sentinel("< 1 year (Paid back in Year 1)")
         ELSE Years(payback_period_years_float(p))
    ELSE IF Le(net_financial_benefit_subsequent_years(p), Zero)
            /\ Gt(p.dry_ice_blaster_cost, Zero)
         THEN Sentinel("Never (Negative Annual Benefit)")
    ELSE IF p.dry_ice_blaster_cost = Zero
         THEN Sentinel("N/A (No initial cost)")
    ELSE Sentinel("N/A")

\* faulty variant: the table of the versions without the power cost row filled in
df_without_power(p) ==
    [manual  |-> << Zero,
                    manual_annual_labor_cost(p),
                    manual_annual_chemical_cost(p),
                    manual_annual_water_cost(p),
                    manual_annual_waste_disposal_cost(p),
                    Zero,
                    Zero,
                    Zero >>,
     blaster |-> << p.dry_ice_blaster_cost,
                    dry_ice_annual_labor_cost(p),
                    liquid_co2_annual_cost(p),
                    Zero,
                    Zero,
                    p.blaster_maintenance_annual,
                    Zero,
                    annual_revenue_gain_from_uptime(p) >>]

\* lines 108-141: the table, rows in the order of "Category"
df(p) ==
    [manual  |-> << Zero,
                    manual_annual_labor_cost(p),
                    manual_annual_chemical_cost(p),
                    manual_annual_water_cost(p),
                    manual_annual_waste_disposal_cost(p),
                    Zero,
                    Zero,
                    Zero >>,
     blaster |-> << p.dry_ice_blaster_cost,
                    dry_ice_annual_labor_cost(p),
                    liquid_co2_annual_cost(p),
                    Zero,
                    Zero,
                    p.blaster_maintenance_annual,
                    blaster_annual_power_cost(p),
                    annual_revenue_gain_from_uptime(p) >>]

\* line 143: the returned tuple; a division by zero raises instead
perform_cba(p) ==
    LET roi == roi_over_lifespan(p)
        pay == payback_period_years(p)
    IN [outcome |-> IF IsFault(roi) \/ pay.text = "ZeroDivisionError"
                    THEN "ZeroDivisionError" ELSE "returned",
        df |-> df(p),
        annual_operational_cost_savings |-> annual_operational_cost_savings(p),
        net_financial_benefit_year_1 |-> net_financial_benefit_year_1(p),
        net_financial_benefit_subsequent_years |->
            net_financial_benefit_subsequent_years(p),
        roi_over_lifespan |-> roi,
        payback_period_years |-> pay]

\* no call has returned yet
NoResult ==
    [outcome |-> "none",
     df |-> [manual |-> << >>, blaster |-> << >>],
     annual_operational_cost_savings |-> Zero,
     net_financial_benefit_year_1 |-> Zero,
     net_financial_benefit_subsequent_years |-> Zero,
     roi_over_lifespan |-> Zero,
     payback_period_years |-> Sentinel("none")]

----------------------------------------------------------------------------
(* The arguments.  perform_cba validates nothing (lines 6-30 go straight   *)
(* to the arithmetic), so a call may carry any numbers; the widgets of the *)
(* script (lines 166-238) only offer values from their min_value on.       *)

Ints(lo, hi) == {R(i, 1) : i \in lo..hi}

ArgValues ==
    [daily_cleaning_frequency |-> Ints(1, MaxFrequency),
     manual_staff_count |-> {R(1, 1), R(3, 1)},
     manual_cleaning_hours_per_session |-> {Zero, R(3, 1)},
     staff_hourly_cost |-> {R(6, 1)},
     dry_ice_blaster_cost |->
         {R(-1000, 1), Zero, R(15000, 1), R(331000, 1)},
     liquid_co2_cost_per_litre |-> {R(5, 2)},
     liquid_co2_consumption_litre_per_hour |-> {R(20, 1)},
     blaster_maintenance_annual |-> {R(500, 1), R(2555, 8)},
     manual_cleaning_chemicals_per_session |-> {R(10, 1)},
     manual_cleaning_water_per_session |-> {R(5, 1)},
     manual_cleaning_waste_disposal_per_session |-> {R(5, 1)},
     dry_ice_cleaning_time_reduction_percent |->
         {Zero, R(50, 1), R(60, 1), R(90, 1), R(100, 1), R(120, 1)},
     revenue_per_hour_production |-> {Zero, R(8, 1), R(500, 1)},
     blaster_power_consumption_kw |-> {R(3, 1)},
     electricity_cost_per_kwh |-> {R(7, 20), R(1, 4)},
     machine_lifespan_years |-> Ints(0, MaxLifespan)]

ArgNames == DOMAIN ArgValues

\* every record of arguments the model calls perform_cba with (lines 7-22)
Args ==
    [daily_cleaning_frequency : ArgValues.daily_cleaning_frequency,
     manual_staff_count : ArgValues.manual_staff_count,
     manual_cleaning_hours_per_session : ArgValues.manual_cleaning_hours_per_session,
     staff_hourly_cost : ArgValues.staff_hourly_cost,
     dry_ice_blaster_cost : ArgValues.dry_ice_blaster_cost,
     liquid_co2_cost_per_litre : ArgValues.liquid_co2_cost_per_litre,
     liquid_co2_consumption_litre_per_hour : ArgValues.liquid_co2_consumption_litre_per_hour,
     blaster_maintenance_annual : ArgValues.blaster_maintenance_annual,
     manual_cleaning_chemicals_per_session : ArgValues.manual_cleaning_chemicals_per_session,
     manual_cleaning_water_per_session : ArgValues.manual_cleaning_water_per_session,
     manual_cleaning_waste_disposal_per_session : ArgValues.manual_cleaning_waste_disposal_per_session,
     dry_ice_cleaning_time_reduction_percent : ArgValues.dry_ice_cleaning_time_reduction_percent,
     revenue_per_hour_production : ArgValues.revenue_per_hour_production,
     blaster_power_consumption_kw : ArgValues.blaster_power_consumption_kw,
     electricity_cost_per_kwh : ArgValues.electricity_cost_per_kwh,
     machine_lifespan_years : ArgValues.machine_lifespan_years]

\* min_value of each st.number_input / st.slider (lines 166-238)
WidgetMin ==
    [daily_cleaning_frequency |-> R(1, 1),
     manual_staff_count |-> R(1, 1),
     manual_cleaning_hours_per_session |-> R(1, 2),
     staff_hourly_cost |-> Zero,
     dry_ice_blaster_cost |-> R(1000, 1),
     liquid_co2_cost_per_litre |-> R(1, 2),
     liquid_co2_consumption_litre_per_hour |-> R(5, 1),
     blaster_maintenance_annual |-> Zero,
     manual_cleaning_chemicals_per_session |-> Zero,
     manual_cleaning_water_per_session |-> Zero,
     manual_cleaning_waste_disposal_per_session |-> Zero,
     dry_ice_cleaning_time_reduction_percent |-> Zero,
     revenue_per_hour_production |-> Zero,
     blaster_power_consumption_kw |-> R(1, 10),
     electricity_cost_per_kwh |-> R(1, 100),
     machine_lifespan_years |-> R(1, 1)]

\* max_value=90 of the slider (line 179)
SliderMax == R(90, 1)

WidgetValues(f) ==
    {v \in ArgValues[f] :
        /\ Ge(v, WidgetMin[f])
        /\ f = "dry_ice_cleaning_time_reduction_percent" => Le(v, SliderMax)}

----------------------------------------------------------------------------
(* The Investment Metrics rendering (lines 299-328) *)

\* line 303
roi_delta(r) ==
    IF Ge(r.roi_over_lifespan, Zero) THEN "Higher is better!" ELSE "Negative ROI"

\* lines 308-319: "years" occurs in the numeric text only ("< 1 year (...)"
\* has "year " and "Year 1"), and float() of the printed number is the number
is_positive_payback(r) ==
    /\ r.payback_period_years.text = "years"
    /\ r.payback_period_years.years100 > 0

\* lines 321-322
delta_text(r) == IF is_positive_payback(r) THEN "Shorter is better!" ELSE "None"

NotShown == [roi_delta |-> "none", payback_value |-> Sentinel("none"),
             payback_delta |-> "none"]

----------------------------------------------------------------------------
(* The state machine: a call of perform_cba, the rendering of what it      *)
(* returned, and the rerun of the script when a widget changes             *)

Init ==
    /\ args \in Args
    /\ pc = "call"
    /\ ret = NoResult
    /\ shown = NotShown

\* line 243 (or any caller of the function)
Call ==
    /\ pc = "call"
    /\ ret' = perform_cba(args)
    /\ pc' = "computed"
    /\ UNCHANGED <<args, shown>>

\* lines 299-328
Render ==
    /\ pc = "computed"
    /\ ret.outcome = "returned"
    /\ shown' = [roi_delta |-> roi_delta(ret),
                 payback_value |-> ret.payback_period_years,
                 payback_delta |-> delta_text(ret)]
    /\ pc' = "rendered"
    /\ UNCHANGED <<args, ret>>

\* Streamlit reruns the script from the top when one widget changes
WidgetChange ==
    /\ pc = "rendered"
    /\ \E f \in ArgNames : \E v \in WidgetValues(f) :
          /\ v # args[f]
          /\ args' = [args EXCEPT ![f] = v]
    /\ ret' = NoResult
    /\ shown' = NotShown
    /\ pc' = "call"

Next == Call \/ Render \/ WidgetChange

Spec == Init /\ [][Next]_vars

----------------------------------------------------------------------------
(* Vocabulary of the properties *)

AbsR(x) == [n |-> Abs(x.n), d |-> x.d]

\* a call has returned its tuple
Returned == pc # "call" /\ ret.outcome = "returned"

Cost == args.dry_ice_blaster_cost

Lifespan == args.machine_lifespan_years

Savings == ret.annual_operational_cost_savings

Year1 == ret.net_financial_benefit_year_1

Subsequent == ret.net_financial_benefit_subsequent_years

Roi == ret.roi_over_lifespan

Payback == ret.payback_period_years

NoInitialCost == "N/A (No initial cost)"

Never == "Never (Negative Annual Benefit)"

UnderOneYear == "< 1 year (Paid back in Year 1)"

\* the documented ranges of section 3 of the specification
InDocumentedRange(p) ==
    /\ Ge(p.daily_cleaning_frequency, R(1, 1))
    /\ Ge(p.manual_staff_count, R(1, 1))
    /\ Gt(p.manual_cleaning_hours_per_session, Zero)
    /\ Ge(p.dry_ice_cleaning_time_reduction_percent, Zero)
    /\ Le(p.dry_ice_cleaning_time_reduction_percent, SliderMax)
    /\ \A f \in {"staff_hourly_cost", "dry_ice_blaster_cost",
                 "liquid_co2_cost_per_litre",
                 "liquid_co2_consumption_litre_per_hour",
                 "blaster_maintenance_annual",
                 "manual_cleaning_chemicals_per_session",
                 "manual_cleaning_water_per_session",
                 "manual_cleaning_waste_disposal_per_session",
                 "revenue_per_hour_production",
                 "blaster_power_consumption_kw",
                 "electricity_cost_per_kwh"} : Ge(p[f], Zero)

\* the violations claim C2 names
ViolatesRange(p) ==
    \/ Ge(p.dry_ice_cleaning_time_reduction_percent, R(100, 1))
    \/ Lt(p.dry_ice_blaster_cost, Zero)
    \/ p.manual_cleaning_hours_per_session = Zero

----------------------------------------------------------------------------
(* C1: with capital cost 0, whatever the other arguments, ROI is 0, the    *)
(* payback is "N/A (No initial cost)" and no division by zero occurs.      *)
(* The code reports "< 1 year (Paid back in Year 1)" when the subsequent-  *)
(* year benefit is positive: line 93 is tested before line 103.            *)
C1_ZeroCapitalNotApplicable ==
    (pc # "call" /\ Cost = Zero) =>
        /\ ret.outcome = "returned"
        /\ Roi = Zero
        /\ Payback.text = NoInitialCost

(* C2: the engine refuses to compute on an argument outside its range      *)
(* (reduction >= 100, a negative cost, zero hours): no result is returned, *)
(* so no returned result has blasting hours <= 0 or negative downtime      *)
(* saved.  The code has no validation and returns a result for every call. *)
C2_EngineRejectsOutOfRange ==
    pc # "call" =>
        /\ ViolatesRange(args) => ret.outcome # "returned"
        /\ ret.outcome = "returned" =>
              /\ Gt(dry_ice_cleaning_hours_per_session(args), Zero)
              /\ Ge(downtime_saved_per_session_hours(args), Zero)

(* C3: a numeric payback of P years is the time at which the cumulative    *)
(* net benefit equals the capital cost: P * B = cost, B the constant       *)
(* annual net benefit, up to the two-decimal rounding of P                 *)
(* (|P * B - cost| <= 0.005 * B).  The code reports (cost - B) / B.        *)
C3_PaybackRecoversCapital ==
    (Returned /\ Payback.text = "years") =>
        Le(AbsR(Sub(Mul(R(Payback.years100, 100), Subsequent), Cost)),
           Mul(R(1, 200), Subsequent))

----------------------------------------------------------------------------
C5_AmountToRecoverTestedFirst ==
    (Returned /\ Ge(Cost, Zero) /\ Le(Sub(Cost, Subsequent), Zero)) =>
        Payback.text = UnderOneYear

(* C5 as amended: with capital cost >= 0 and an amount to recover <= 0,    *)
(* the payback is "< 1 year (Paid back in Year 1)" when the subsequent-    *)
(* year benefit is positive; the sign of the benefit is tested first, so   *)
(* an amount of 0 with a benefit of 0 (capital cost 0) is reported as      *)
(* "N/A (No initial cost)".                                                *)
C5_UnderOneYearWhenBenefitPositive ==
    (Returned /\ Ge(Cost, Zero) /\ Le(Sub(Cost, Subsequent), Zero)) =>
        /\ Gt(Subsequent, Zero) => Payback.text = UnderOneYear
        /\ ~Gt(Subsequent, Zero) =>
              (Subsequent = Zero /\ Cost = Zero /\ Payback.text = NoInitialCost)

\* a positive capital cost recovered within the first year
C5_Witness ==
    /\ Returned
    /\ Gt(Cost, Zero)
    /\ Le(Sub(Cost, Subsequent), Zero)
    /\ Payback.text = UnderOneYear

\* the results for the same arguments with another revenue per hour
WithRevenue(v) == perform_cba([args EXCEPT !.revenue_per_hour_production = v])

(* C6 as claimed: of two argument records within the documented ranges     *)
(* that differ only in the revenue per hour of production, the one with    *)
(* the larger revenue has the strictly larger year-1 and subsequent-year   *)
(* net benefit.                                                            *)
C6_RevenueStrictlyIncreasesBenefit ==
    (Returned /\ InDocumentedRange(args)) =>
        \A v \in ArgValues.revenue_per_hour_production :
            Gt(v, args.revenue_per_hour_production) =>
                /\ Gt(WithRevenue(v).net_financial_benefit_year_1, Year1)
                /\ Gt(WithRevenue(v).net_financial_benefit_subsequent_years,
                      Subsequent)

(* C6 as amended: of two argument records within the documented ranges     *)
(* that differ only in the revenue per hour, the one with the larger       *)
(* revenue has the strictly larger year-1 and subsequent-year net benefit  *)
(* when the reduction percent is in (0, 90]; with a reduction of 0 no      *)
(* downtime is saved and both net benefits are equal.                      *)
C6_RevenueIncreasesBenefitWhenTimeSaved ==
    (Returned /\ InDocumentedRange(args)) =>
        \A v \in ArgValues.revenue_per_hour_production :
            Gt(v, args.revenue_per_hour_production) =>
                IF Gt(args.dry_ice_cleaning_time_reduction_percent, Zero)
                THEN /\ Gt(WithRevenue(v).net_financial_benefit_year_1, Year1)
                     /\ Gt(WithRevenue(v).net_financial_benefit_subsequent_years,
                           Subsequent)
                ELSE /\ WithRevenue(v).net_financial_benefit_year_1 = Year1
                     /\ WithRevenue(v).net_financial_benefit_subsequent_years
                           = Subsequent

\* a result within the ranges, time saved, and a larger revenue to compare with
C6_Witness ==
    /\ Returned
    /\ InDocumentedRange(args)
    /\ Gt(args.dry_ice_cleaning_time_reduction_percent, Zero)
    /\ \E v \in ArgValues.revenue_per_hour_production :
          /\ Gt(v, args.revenue_per_hour_production)
          /\ Gt(WithRevenue(v).net_financial_benefit_subsequent_years, Subsequent)

----------------------------------------------------------------------------
(* The reference formulas of claim C7, written from the arguments in the   *)
(* factored form the claim gives                                           *)

RefSessions(p) == Mul(p.daily_cleaning_frequency, R(365, 1))

RefManualCost(p) ==
    Mul(Add(Add(Add(Mul(Mul(p.manual_staff_count,
                            p.manual_cleaning_hours_per_session),
                        p.staff_hourly_cost),
                    p.manual_cleaning_chemicals_per_session),
                p.manual_cleaning_water_per_session),
            p.manual_cleaning_waste_disposal_per_session),
        RefSessions(p))

RefBlastingHours(p) ==
    Div(Mul(p.manual_cleaning_hours_per_session,
            Sub(R(100, 1), p.dry_ice_cleaning_time_reduction_percent)),
        R(100, 1))

RefBlasterCost(p) ==
    Add(Mul(Mul(Add(Add(p.staff_hourly_cost,
                        Mul(p.liquid_co2_consumption_litre_per_hour,
                            p.liquid_co2_cost_per_litre)),
                    Mul(p.blaster_power_consumption_kw,
                        p.electricity_cost_per_kwh)),
                RefBlastingHours(p)),
            RefSessions(p)),
        p.blaster_maintenance_annual)

RefRevenueGain(p) ==
    Mul(Mul(Sub(p.manual_cleaning_hours_per_session, RefBlastingHours(p)),
            RefSessions(p)),
        p.revenue_per_hour_production)

\* the reference scenario of section 8 of the specification, lifespan aside
IsReferenceScenario(p) ==
    /\ p.daily_cleaning_frequency = R(1, 1)
    /\ p.manual_staff_count = R(3, 1)
    /\ p.manual_cleaning_hours_per_session = R(3, 1)
    /\ p.staff_hourly_cost = R(6, 1)
    /\ p.dry_ice_blaster_cost = R(15000, 1)
    /\ p.liquid_co2_cost_per_litre = R(5, 2)
    /\ p.liquid_co2_consumption_litre_per_hour = R(20, 1)
    /\ p.blaster_maintenance_annual = R(500, 1)
    /\ p.manual_cleaning_chemicals_per_session = R(10, 1)
    /\ p.manual_cleaning_water_per_session = R(5, 1)
    /\ p.manual_cleaning_waste_disposal_per_session = R(5, 1)
    /\ p.dry_ice_cleaning_time_reduction_percent = R(60, 1)
    /\ p.revenue_per_hour_production = R(500, 1)
    /\ p.blaster_power_consumption_kw = R(3, 1)
    /\ p.electricity_cost_per_kwh = R(7, 20)

\* the sum of rows lo..hi of a column of the table
RECURSIVE SumRows(_, _, _)
SumRows(col, lo, hi) ==
    IF lo > hi THEN Zero ELSE Add(col[lo], SumRows(col, lo + 1, hi))

(* C7: within the documented ranges the results equal the reference        *)
(* formulas: the manual column sums to (staff * hours * hourly cost +      *)
(* chemical + water + waste) * sessions, the blaster operating rows to     *)
(* (hourly cost + consumption * unit cost + kW * rate) * blasting hours *  *)
(* sessions + maintenance, the revenue gain is (hours - blasting hours) *  *)
(* sessions * revenue per hour, savings = manual - blaster, subsequent =   *)
(* savings + revenue gain, year 1 = subsequent - capital cost; and the     *)
(* reference scenario gives 1522.10, 315022.10 and 330022.10.              *)
C7_ReferenceFormulas ==
    (Returned /\ InDocumentedRange(args)) =>
        /\ annual_cleaning_sessions(args) = RefSessions(args)
        /\ dry_ice_cleaning_hours_per_session(args) = RefBlastingHours(args)
        /\ SumRows(ret.df.manual, 1, 8) = RefManualCost(args)
        /\ SumRows(ret.df.blaster, 2, 7) = RefBlasterCost(args)
        /\ ret.df.blaster[8] = RefRevenueGain(args)
        /\ Savings = Sub(RefManualCost(args), RefBlasterCost(args))
        /\ Subsequent = Add(Savings, RefRevenueGain(args))
        /\ Year1 = Sub(Subsequent, Cost)
        /\ IsReferenceScenario(args) =>
              /\ Savings = R(152210, 100)
              /\ Year1 = R(31502210, 100)
              /\ Subsequent = R(33002210, 100)

\* the reference scenario has been computed, with its blasting hours of 1.2
C7_Witness ==
    /\ Returned
    /\ IsReferenceScenario(args)
    /\ RefBlastingHours(args) = R(12, 10)
    /\ Subsequent = R(33002210, 100)

(* C8: the table reconciles with the scalars: manual column minus the      *)
(* blaster column's operating rows (2..7) is the operational savings;      *)
(* plus the revenue-gain row (8) it is the subsequent-year benefit; minus  *)
(* the capital row (1) that is the year-1 benefit; the capital row holds   *)
(* the purchase cost in the blaster column and 0 in the manual column.     *)
C8_TableReconciles ==
    Returned =>
        /\ Len(ret.df.manual) = 8
        /\ Len(ret.df.blaster) = 8
        /\ Sub(SumRows(ret.df.manual, 1, 8), SumRows(ret.df.blaster, 2, 7))
              = Savings
        /\ Add(Sub(SumRows(ret.df.manual, 1, 8), SumRows(ret.df.blaster, 2, 7)),
               ret.df.blaster[8]) = Subsequent
        /\ Sub(Add(Sub(SumRows(ret.df.manual, 1, 8),
                       SumRows(ret.df.blaster, 2, 7)),
                   ret.df.blaster[8]),
               ret.df.blaster[1]) = Year1
        /\ ret.df.blaster[1] = Cost
        /\ ret.df.manual[1] = Zero

\* a table with a capital cost, a power cost and a revenue gain in it
C8_Witness ==
    /\ Returned
    /\ Gt(ret.df.blaster[1], Zero)
    /\ Gt(ret.df.blaster[7], Zero)
    /\ Gt(ret.df.blaster[8], Zero)
    /\ Savings # Subsequent

(* C9: with capital cost > 0 and lifespan >= 1 the ROI is the lifespan-    *)
(* amortized one, (year 1 + subsequent * (lifespan - 1)) / cost * 100,     *)
(* which subtracts the capital cost once: (lifespan * subsequent - cost) / *)
(* cost * 100; with lifespan 1 it is year 1 / cost * 100.                  *)
C9_LifespanAmortizedRoi ==
    (Returned /\ Gt(Cost, Zero) /\ Ge(Lifespan, R(1, 1))) =>
        /\ Roi = Mul(Div(Add(Year1, Mul(Subsequent, Sub(Lifespan, R(1, 1)))),
                         Cost), R(100, 1))
        /\ Roi = Mul(Div(Sub(Mul(Lifespan, Subsequent), Cost), Cost), R(100, 1))
        /\ Lifespan = R(1, 1) => Roi = Mul(Div(Year1, Cost), R(100, 1))

\* a ROI over more than one year, with a capital cost and a benefit
C9_Witness ==
    /\ Returned
    /\ Gt(Cost, Zero)
    /\ Gt(Lifespan, R(1, 1))
    /\ Subsequent # Zero
    /\ Roi # Zero

(* C10: the two investment metrics agree: with capital cost > 0 and        *)
(* lifespan >= 1, a payback of "Never (Negative Annual Benefit)" comes     *)
(* with a ROI < 0 and a payback of "< 1 year (Paid back in Year 1)" with a *)
(* ROI >= 0; with capital cost >= 0 the payback is one of the four         *)
(* descriptive outcomes, never the bare "N/A"; the page shows them so.     *)
C10_MetricsAgree ==
    Returned =>
        /\ (Gt(Cost, Zero) /\ Ge(Lifespan, R(1, 1))) =>
              /\ Payback.text = Never => Lt(Roi, Zero)
              /\ Payback.text = UnderOneYear => Ge(Roi, Zero)
              /\ (pc = "rendered" /\ shown.payback_value.text = Never)
                    => shown.roi_delta = "Negative ROI"
              /\ (pc = "rendered" /\ shown.payback_value.text = UnderOneYear)
                    => shown.roi_delta = "Higher is better!"
        /\ Ge(Cost, Zero) =>
              Payback.text \in {"years", UnderOneYear, Never, NoInitialCost}

\* "Never" shown on the page beside a negative ROI
C10_Witness ==
    /\ pc = "rendered"
    /\ Gt(Cost, Zero)
    /\ Ge(Lifespan, R(1, 1))
    /\ shown.payback_value.text = Never
    /\ shown.roi_delta = "Negative ROI"
    /\ Lt(Roi, Zero)

====
